---- MODULE Spec2Model ----
(***************************************************************************)
(* Model of jenkinsfilelint: JenkinsfileLinter (linter.py).               *)
(*                                                                         *)
(* Text is modelled by TLA+ strings, character by character: Len, SubSeq   *)
(* and \o are Python's len, slicing and +.  Python's None and optional     *)
(* values are modelled by None == <<>> and Some(s) == <<s>>.               *)
(***************************************************************************)
EXTENDS Integers, Sequences, FiniteSets, TLC

VARIABLES args, environ, jenkins_url, username, token, fs, server, op, result, reads,
          requests, calls

\* a run of main: its command line, where it stands, and what it has written
VARIABLES argv, pc, file_index, all_valid, printed_messages, stdout, stderr, exit_code, processed,
          posted

mainvars ==
    <<argv, pc, file_index, all_valid, printed_messages, stdout, stderr, exit_code, processed,
      posted>>

vars ==
    <<args, environ, jenkins_url, username, token, fs, server, op, result, reads, requests,
      calls, mainvars>>

(***************************************************************************)
(* Bounds of the model.                                                    *)
(***************************************************************************)
\* number of fragments a file's text is built from
MaxFrags == 4
\* number of fragments a plain-text response body is built from
MaxRespFrags == 2
\* length of the data.errors list of a JSON response
MaxErrors == 2

(***************************************************************************)
(* Python values.                                                          *)
(***************************************************************************)
None == <<>>

Some(s) == <<s>>

\* truth value of an Optional[str]: None and "" are falsy
Truthy(o) == o # None /\ o[1] # ""

\* `a or b` on Optional[str]
PyOr(a, b) == IF Truthy(a) THEN a ELSE b

Whitespace == {" ", "\t", "\n", "\r", "\f"}

WordChars == "abcdefghijklmnopqrstuvwxyzABCDEFGHIJKLMNOPQRSTUVWXYZ0123456789_"

\* `m in t` on strings
Contains(t, m) == \E i \in 1..(Len(t) - Len(m) + 1) : SubSeq(t, i, i + Len(m) - 1) = m

IsSpace(c) == c \in Whitespace

\* \w of the re module
IsWordChar(c) == Contains(WordChars, c)

\* str.strip(): drop leading and trailing whitespace
Strip(t) ==
    LET idx == {i \in 1..Len(t) : ~IsSpace(SubSeq(t, i, i))}
        first == CHOOSE i \in idx : \A j \in idx : i <= j
        last == CHOOSE i \in idx : \A j \in idx : j <= i
    IN IF idx = {} THEN "" ELSE SubSeq(t, first, last)

\* re.search(word \s* open, t), with \b in front of word when boundary
SearchOpener(t, word, open, boundary) ==
    \E i \in 1..Len(t) :
        /\ i + Len(word) - 1 <= Len(t)
        /\ SubSeq(t, i, i + Len(word) - 1) = word
        /\ boundary => (i = 1 \/ ~IsWordChar(SubSeq(t, i - 1, i - 1)))
        /\ \E j \in (i + Len(word))..Len(t) :
              /\ SubSeq(t, j, j) = open
              /\ \A k \in (i + Len(word))..(j - 1) : IsSpace(SubSeq(t, k, k))

\* re.match in place of re.search: the opener only at the start of the text
SearchPipeline_match(content) ==
    /\ Len(content) >= Len("pipeline")
    /\ SubSeq(content, 1, Len("pipeline")) = "pipeline"
    /\ \E j \in (Len("pipeline") + 1)..Len(content) :
          /\ SubSeq(content, j, j) = "{"
          /\ \A k \in (Len("pipeline") + 1)..(j - 1) : IsSpace(SubSeq(content, k, k))

\* the opener without its brace: r"\bpipeline\s*"
SearchPipeline_nobrace(content) ==
    \E i \in 1..(Len(content) - Len("pipeline") + 1) :
        /\ SubSeq(content, i, i + Len("pipeline") - 1) = "pipeline"
        /\ i = 1 \/ ~IsWordChar(SubSeq(content, i - 1, i - 1))

\* re.search(r"\bpipeline\s*\{", content) is not None
SearchPipeline(content) == SearchOpener(content, "pipeline", "{", TRUE)

\* re.search(r"@Library\s*\(", content) is not None
SearchLibrary(content) == SearchOpener(content, "@Library", "(", FALSE)

RECURSIVE Join(_, _)
\* sep.join(items)
Join(sep, items) ==
    IF items = <<>> THEN ""
    ELSE IF Len(items) = 1 THEN items[1]
    ELSE items[1] \o sep \o Join(sep, Tail(items))

\* str.rstrip(ch)
RStrip(t, ch) ==
    LET idx == {i \in 1..Len(t) : SubSeq(t, i, i) # ch}
        last == CHOOSE i \in idx : \A j \in idx : j <= i
    IN IF idx = {} THEN "" ELSE SubSeq(t, 1, last)

(***************************************************************************)
(* Values decoded from JSON, as Python objects: None, bool, int, str,      *)
(* list, and dict (a sequence of <<key, value>> pairs with distinct keys,  *)
(* in insertion order).                                                    *)
(***************************************************************************)
JNull == [t |-> "NoneType"]

JBool(b) == [t |-> "bool", b |-> b]

JNum(n) == [t |-> "int", n |-> n]

JStr(s) == [t |-> "str", s |-> s]

JList(items) == [t |-> "list", items |-> items]

JObj(fields) == [t |-> "dict", fields |-> fields]

IsDict(v) == v.t = "dict"

HasKey(d, key) == \E i \in 1..Len(d.fields) : d.fields[i][1] = key

\* dict.get(key, default)
DictGet(d, key, default) ==
    IF HasKey(d, key)
    THEN d.fields[CHOOSE i \in 1..Len(d.fields) : d.fields[i][1] = key][2]
    ELSE default

\* bool(v)
PyTruthy(v) ==
    CASE v.t = "NoneType" -> FALSE
      [] v.t = "bool" -> v.b
      [] v.t = "int" -> v.n # 0
      [] v.t = "str" -> v.s # ""
      [] v.t = "list" -> v.items # <<>>
      [] v.t = "dict" -> v.fields # <<>>

\* whether `for x in v` is possible
IsIterable(v) == v.t \in {"str", "list", "dict"}

\* [x for x in v]: the elements of a list, the characters of a str, the keys of a dict
Iterate(v) ==
    CASE v.t = "list" -> v.items
      [] v.t = "str" -> [i \in 1..Len(v.s) |-> JStr(SubSeq(v.s, i, i))]
      [] v.t = "dict" -> [i \in 1..Len(v.fields) |-> JStr(v.fields[i][1])]

RECURSIVE EscapeStr(_, _)
\* the body of repr(str): the quote character, the backslash and control characters escaped
EscapeStr(s, quote) ==
    IF s = "" THEN ""
    ELSE LET c == SubSeq(s, 1, 1)
             e == CASE c = quote -> "\\" \o quote
                    [] c = "\\" -> "\\\\"
                    [] c = "\n" -> "\\n"
                    [] c = "\t" -> "\\t"
                    [] c = "\r" -> "\\r"
                    [] OTHER -> c
         IN e \o EscapeStr(SubSeq(s, 2, Len(s)), quote)

\* repr(str): single quotes, unless the text has a single quote and no double quote
ReprStr(s) ==
    LET quote == IF Contains(s, "'") /\ ~Contains(s, "\"") THEN "\"" ELSE "'"
    IN quote \o EscapeStr(s, quote) \o quote

RECURSIVE PyRepr(_)
\* repr(v)
PyRepr(v) ==
    CASE v.t = "NoneType" -> "None"
      [] v.t = "bool" -> IF v.b THEN "True" ELSE "False"
      [] v.t = "int" -> ToString(v.n)
      [] v.t = "str" -> ReprStr(v.s)
      [] v.t = "list" -> "[" \o Join(", ", [i \in 1..Len(v.items) |-> PyRepr(v.items[i])]) \o "]"
      [] v.t = "dict" ->
            "{" \o Join(", ", [i \in 1..Len(v.fields) |->
                        ReprStr(v.fields[i][1]) \o ": " \o PyRepr(v.fields[i][2])]) \o "}"

\* str(v)
PyStr(v) == IF v.t = "str" THEN v.s ELSE PyRepr(v)

(***************************************************************************)
(* The file system: fs[path] is what the path refers to.                   *)
(***************************************************************************)
Missing == [kind |-> "missing"]

Directory == [kind |-> "dir"]

\* a regular file; mode is "ok", "denied" (no read permission) or
\* "undecodable" (bytes that are not UTF-8)
File(mode, content) == [kind |-> "file", mode |-> mode, content |-> content]

\* os.path.isfile(path)
IsFile(files, path) == files[path].kind = "file"

\* with open(path, "r", encoding="utf-8") as f: f.read()
ReadFile(files, path) ==
    LET e == files[path]
        oserror(text) == [ok |-> FALSE, exc |-> "IOError", cause |-> text \o ": " \o ReprStr(path)]
    IN CASE e.kind = "missing" -> oserror("[Errno 2] No such file or directory")
         [] e.kind = "dir" -> oserror("[Errno 21] Is a directory")
         [] e.kind = "file" /\ e.mode = "denied" -> oserror("[Errno 13] Permission denied")
         [] e.kind = "file" /\ e.mode = "undecodable" ->
               [ok |-> FALSE, exc |-> "UnicodeDecodeError",
                cause |-> "'utf-8' codec can't decode byte"]
         [] e.kind = "file" /\ e.mode = "ok" -> [ok |-> TRUE, content |-> e.content]

(***************************************************************************)
(* What a Python call yields: a (bool, str) tuple, None when the function  *)
(* ends without a return statement, or an exception that propagates.       *)
(***************************************************************************)
Verdict(valid, message) == [kind |-> "verdict", valid |-> valid, message |-> message]

ReturnsNone == [kind |-> "none"]

Raises(exc) == [kind |-> "raise", exc |-> exc]

\* what a call did: its outcome, the files it opened, the requests it sent,
\* the methods it entered
Effect(res, rd, rq, cl) == [result |-> res, reads |-> rd, requests |-> rq, calls |-> cl]

(***************************************************************************)
(* The remote service: `server` is what requests.post meets, either a      *)
(* transport failure or a response with a status code and a body.  A body  *)
(* is JSON text (kept as the decoded value) or text that is not JSON.      *)
(***************************************************************************)
TransportFailure(cause) == [kind |-> "exception", cause |-> cause]

JsonResponse(status, value) ==
    [kind |-> "response", status |-> status, isJson |-> TRUE, json |-> value]

TextResponse(status, text) ==
    [kind |-> "response", status |-> status, isJson |-> FALSE, text |-> text]

\* response.raise_for_status(): an HTTPError for a 4xx or 5xx status
RaisesForStatus(response) == response.status >= 400 /\ response.status < 600

\* str(e) of that HTTPError
HttpErrorCause(response, url) ==
    ToString(response.status)
        \o (IF response.status < 500 THEN " Client Error" ELSE " Server Error")
        \o " for url: " \o url

(***************************************************************************)
(* JenkinsfileLinter                                                       *)
(***************************************************************************)
MsgUrlNotProvided ==
    "Jenkins URL not provided. Set JENKINS_URL environment variable or pass --jenkins-url."

MsgValidated == "Jenkinsfile successfully validated"

MsgEmpty == "Jenkinsfile is empty"

MsgNoPipeline ==
    "Warning: File does not appear to contain a pipeline declaration. "
        \o "For full validation, provide Jenkins credentials."

MsgAppearsValid ==
    "Jenkinsfile appears valid (basic syntax check only). "
        \o "For full validation, set JENKINS_URL, JENKINS_USER, and JENKINS_TOKEN."

\* a single trailing "/" is removed
validation_url_onestrip ==
    LET url == jenkins_url[1]
        cut == IF Len(url) > 0 /\ SubSeq(url, Len(url), Len(url)) = "/"
               THEN SubSeq(url, 1, Len(url) - 1) ELSE url
    IN cut \o "/pipeline-model-converter/validate"

\* validation_url
validation_url == RStrip(jenkins_url[1], "/") \o "/pipeline-model-converter/validate"

\* credentials attached when either one is set: `or` in place of `and`
auth_or ==
    IF Truthy(username) \/ Truthy(token)
    THEN <<IF username = None THEN "" ELSE username[1], IF token = None THEN "" ELSE token[1]>>
    ELSE None

\* auth
auth == IF Truthy(username) /\ Truthy(token) THEN <<username[1], token[1]>> ELSE None

\* the call requests.post(validation_url, data=data, auth=auth, timeout=30)
PostRequest(jenkinsfile_content) ==
    [method |-> "POST", url |-> validation_url,
     data |-> <<<<"jenkinsfile", jenkinsfile_content>>>>,
     auth |-> auth, timeout |-> 30]

\* the errors of data looked at before the status
ClassifyJson_errorsfirst(result_json) ==
    IF ~IsDict(result_json) THEN ReturnsNone
    ELSE LET data == DictGet(result_json, "data", JObj(<<>>))
             errors == DictGet(data, "errors", JList(<<>>))
         IN IF IsDict(data) /\ PyTruthy(errors) /\ IsIterable(errors)
            THEN LET items == Iterate(errors)
                     error_msg == Join("\n", [i \in 1..Len(items) |-> PyStr(items[i])])
                 IN Verdict(FALSE, "Validation errors:\n" \o error_msg)
            ELSE IF DictGet(result_json, "status", JNull) = JStr("ok")
            THEN Verdict(TRUE, MsgValidated)
            ELSE IF ~IsDict(data) THEN Raises("AttributeError")
            ELSE IF PyTruthy(errors) THEN Raises("TypeError")
            ELSE Verdict(FALSE, PyStr(result_json))

\* only the first error reported: str(errors[0]) in place of the join
ClassifyJson_firsterror(result_json) ==
    IF ~IsDict(result_json) THEN ReturnsNone
    ELSE IF DictGet(result_json, "status", JNull) = JStr("ok")
    THEN Verdict(TRUE, MsgValidated)
    ELSE LET data == DictGet(result_json, "data", JObj(<<>>))
         IN IF ~IsDict(data) THEN Raises("AttributeError")
            ELSE LET errors == DictGet(data, "errors", JList(<<>>))
                 IN IF PyTruthy(errors)
                    THEN IF ~IsIterable(errors) THEN Raises("TypeError")
                         ELSE Verdict(FALSE, "Validation errors:\n"
                                                \o PyStr(Iterate(errors)[1]))
                    ELSE Verdict(FALSE, PyStr(result_json))

\* the branch taken when response.json() yields result_json
ClassifyJson(result_json) ==
    IF ~IsDict(result_json) THEN ReturnsNone
    ELSE IF DictGet(result_json, "status", JNull) = JStr("ok")
    THEN Verdict(TRUE, MsgValidated)
    ELSE LET data == DictGet(result_json, "data", JObj(<<>>))
         IN IF ~IsDict(data) THEN Raises("AttributeError")
            ELSE LET errors == DictGet(data, "errors", JList(<<>>))
                 IN IF PyTruthy(errors)
                    THEN IF ~IsIterable(errors) THEN Raises("TypeError")
                         ELSE LET items == Iterate(errors)
                                  error_msg ==
                                      Join("\n", [i \in 1..Len(items) |-> PyStr(items[i])])
                              IN Verdict(FALSE, "Validation errors:\n" \o error_msg)
                    ELSE Verdict(FALSE, PyStr(result_json))

\* the list without its "Expected" entry
error_indicators_short ==
    <<"Errors", "error", "No Jenkinsfile specified", "WorkflowScript:",
      "unexpected token", "unable to resolve class">>

error_indicators ==
    <<"Errors", "error", "No Jenkinsfile specified", "WorkflowScript:", "Expected",
      "unexpected token", "unable to resolve class">>

\* the branch taken when response.json() raises ValueError
ClassifyText(text) ==
    LET res == Strip(text)
    IN IF \E i \in 1..Len(error_indicators) : Contains(res, error_indicators[i])
       THEN Verdict(FALSE, res)
       ELSE Verdict(TRUE, res)

\* without the call of response.raise_for_status()
_validate_with_jenkins_nostatus(jenkinsfile_path) ==
    LET me == <<"_validate_with_jenkins">>
        rd == ReadFile(fs, jenkinsfile_path)
        sent == <<PostRequest(rd.content)>>
    IN IF ~Truthy(jenkins_url)
       THEN Effect(Verdict(FALSE, MsgUrlNotProvided), <<>>, <<>>, me)
       ELSE IF ~rd.ok
       THEN IF rd.exc = "IOError"
            THEN Effect(Verdict(FALSE, "Error reading file: " \o rd.cause),
                        <<jenkinsfile_path>>, <<>>, me)
            ELSE Effect(Raises(rd.exc), <<jenkinsfile_path>>, <<>>, me)
       ELSE IF server.kind = "exception"
       THEN Effect(Verdict(FALSE, "Error connecting to Jenkins: " \o server.cause),
                   <<jenkinsfile_path>>, sent, me)
       ELSE IF server.isJson
       THEN Effect(ClassifyJson(server.json), <<jenkinsfile_path>>, sent, me)
       ELSE Effect(ClassifyText(server.text), <<jenkinsfile_path>>, sent, me)

\* the file is read before the URL is looked at
_validate_with_jenkins_readfirst(jenkinsfile_path) ==
    LET me == <<"_validate_with_jenkins">>
        rd == ReadFile(fs, jenkinsfile_path)
        sent == <<PostRequest(rd.content)>>
    IN IF ~rd.ok
       THEN IF rd.exc = "IOError"
            THEN Effect(Verdict(FALSE, "Error reading file: " \o rd.cause),
                        <<jenkinsfile_path>>, <<>>, me)
            ELSE Effect(Raises(rd.exc), <<jenkinsfile_path>>, <<>>, me)
       ELSE IF ~Truthy(jenkins_url)
       THEN Effect(Verdict(FALSE, MsgUrlNotProvided), <<jenkinsfile_path>>, <<>>, me)
       ELSE IF server.kind = "exception"
       THEN Effect(Verdict(FALSE, "Error connecting to Jenkins: " \o server.cause),
                   <<jenkinsfile_path>>, sent, me)
       ELSE IF RaisesForStatus(server)
       THEN Effect(Verdict(FALSE, "Error connecting to Jenkins: "
                                      \o HttpErrorCause(server, validation_url)),
                   <<jenkinsfile_path>>, sent, me)
       ELSE IF server.isJson
       THEN Effect(ClassifyJson(server.json), <<jenkinsfile_path>>, sent, me)
       ELSE Effect(ClassifyText(server.text), <<jenkinsfile_path>>, sent, me)

\* JenkinsfileLinter._validate_with_jenkins(jenkinsfile_path)
_validate_with_jenkins(jenkinsfile_path) ==
    LET me == <<"_validate_with_jenkins">>
        rd == ReadFile(fs, jenkinsfile_path)
        sent == <<PostRequest(rd.content)>>
    IN IF ~Truthy(jenkins_url)
       THEN Effect(Verdict(FALSE, MsgUrlNotProvided), <<>>, <<>>, me)
       ELSE IF ~rd.ok
       THEN IF rd.exc = "IOError"
            THEN Effect(Verdict(FALSE, "Error reading file: " \o rd.cause),
                        <<jenkinsfile_path>>, <<>>, me)
            ELSE Effect(Raises(rd.exc), <<jenkinsfile_path>>, <<>>, me)
       ELSE IF server.kind = "exception"
       THEN Effect(Verdict(FALSE, "Error connecting to Jenkins: " \o server.cause),
                   <<jenkinsfile_path>>, sent, me)
       ELSE IF RaisesForStatus(server)
       THEN Effect(Verdict(FALSE, "Error connecting to Jenkins: "
                                      \o HttpErrorCause(server, validation_url)),
                   <<jenkinsfile_path>>, sent, me)
       ELSE IF server.isJson
       THEN Effect(ClassifyJson(server.json), <<jenkinsfile_path>>, sent, me)
       ELSE Effect(ClassifyText(server.text), <<jenkinsfile_path>>, sent, me)

\* `if not content` in place of `if not content.strip()`
_validate_syntax_nostrip(jenkinsfile_path) ==
    LET rd == ReadFile(fs, jenkinsfile_path)
        has_pipeline == SearchPipeline(rd.content) \/ SearchLibrary(rd.content)
        res == IF ~rd.ok
               THEN IF rd.exc = "IOError"
                    THEN Verdict(FALSE, "Error reading file: " \o rd.cause)
                    ELSE Raises(rd.exc)
               ELSE IF rd.content = "" THEN Verdict(FALSE, MsgEmpty)
               ELSE IF ~has_pipeline THEN Verdict(FALSE, MsgNoPipeline)
               ELSE Verdict(TRUE, MsgAppearsValid)
    IN Effect(res, <<jenkinsfile_path>>, <<>>, <<"_validate_syntax">>)

\* JenkinsfileLinter._validate_syntax(jenkinsfile_path)
_validate_syntax(jenkinsfile_path) ==
    LET me == <<"_validate_syntax">>
        rd == ReadFile(fs, jenkinsfile_path)
        has_pipeline == SearchPipeline(rd.content) \/ SearchLibrary(rd.content)
        res == IF ~rd.ok
               THEN IF rd.exc = "IOError"
                    THEN Verdict(FALSE, "Error reading file: " \o rd.cause)
                    ELSE Raises(rd.exc)
               ELSE IF Strip(rd.content) = "" THEN Verdict(FALSE, MsgEmpty)
               ELSE IF ~has_pipeline THEN Verdict(FALSE, MsgNoPipeline)
               ELSE Verdict(TRUE, MsgAppearsValid)
    IN Effect(res, <<jenkinsfile_path>>, <<>>, me)

\* os.path.exists in place of os.path.isfile
validate_exists(jenkinsfile_path) ==
    LET inner == IF Truthy(jenkins_url)
                 THEN _validate_with_jenkins(jenkinsfile_path)
                 ELSE _validate_syntax(jenkinsfile_path)
    IN IF fs[jenkinsfile_path].kind = "missing"
       THEN Effect(Verdict(FALSE, "File not found: " \o jenkinsfile_path),
                   <<>>, <<>>, <<"validate">>)
       ELSE Effect(inner.result, inner.reads, inner.requests, <<"validate">> \o inner.calls)

\* `if self.jenkins_url is not None` in place of `if self.jenkins_url`
validate_isnotnone(jenkinsfile_path) ==
    LET inner == IF jenkins_url # None
                 THEN _validate_with_jenkins(jenkinsfile_path)
                 ELSE _validate_syntax(jenkinsfile_path)
    IN IF ~IsFile(fs, jenkinsfile_path)
       THEN Effect(Verdict(FALSE, "File not found: " \o jenkinsfile_path),
                   <<>>, <<>>, <<"validate">>)
       ELSE Effect(inner.result, inner.reads, inner.requests, <<"validate">> \o inner.calls)

\* JenkinsfileLinter.validate(jenkinsfile_path)
validate(jenkinsfile_path) ==
    LET inner == IF Truthy(jenkins_url)
                 THEN _validate_with_jenkins(jenkinsfile_path)
                 ELSE _validate_syntax(jenkinsfile_path)
    IN IF ~IsFile(fs, jenkinsfile_path)
       THEN Effect(Verdict(FALSE, "File not found: " \o jenkinsfile_path),
                   <<>>, <<>>, <<"validate">>)
       ELSE Effect(inner.result, inner.reads, inner.requests, <<"validate">> \o inner.calls)

(***************************************************************************)
(* The inputs the model is run on.                                         *)
(***************************************************************************)
RECURSIVE Concats(_, _)
\* the texts made of at most n fragments
Concats(frags, n) ==
    IF n = 0 THEN {""}
    ELSE LET shorter == Concats(frags, n - 1)
         IN shorter \cup {a \o b : a \in shorter, b \in frags}

RECURSIVE SeqsUpTo(_, _)
\* the sequences of at most n elements of S
SeqsUpTo(S, n) ==
    IF n = 0 THEN {<<>>}
    ELSE LET shorter == SeqsUpTo(S, n - 1)
         IN shorter \cup {Append(q, x) : q \in shorter, x \in S}

Paths == {"Jenkinsfile", "ci/build.groovy"}

FileFrags == {"pipeline", "{", " ", "x", "@Library", "("}

FileTexts == Concats(FileFrags, MaxFrags)

RespFrags ==
    {"Errors", "error", "No Jenkinsfile specified", "WorkflowScript:", "Expected",
     "unexpected token", "unable to resolve class", "Error", "ok", " "}

\* none of these texts is a JSON document
RespTexts == Concats(RespFrags, MaxRespFrags)

\* what data.errors may hold
ErrorsValues ==
    {JList(q) : q \in SeqsUpTo({JStr("E1"), JStr("E2"), JNum(3)}, MaxErrors)}
        \cup {JNull, JStr(""), JStr("bad"), JNum(0), JNum(5), JObj(<<<<"line", JNum(1)>>>>)}

\* what the data field may hold
DataValues ==
    {JNull, JStr("oops"), JList(<<>>), JList(<<JStr("E1")>>), JNum(0), JObj(<<>>),
     JObj(<<<<"message", JStr("it's bad")>>>>)}
        \cup {JObj(<<<<"errors", e>>>>) : e \in ErrorsValues}

StatusValues == {JStr("ok"), JStr("error"), JStr("OK"), JNull}

\* the JSON objects a response may carry: each of status, data and message present or not
JsonObjects ==
    LET statusPart == {<<>>} \cup {<<<<"status", v>>>> : v \in StatusValues}
        dataPart == {<<>>} \cup {<<<<"data", v>>>> : v \in DataValues}
        messagePart == {<<>>, <<<<"message", JStr("Something went wrong")>>>>}
    IN {JObj(a \o b \o c) : a \in statusPart, b \in dataPart, c \in messagePart}

\* JSON documents that are not objects
JsonOthers ==
    {JNull, JBool(TRUE), JNum(0), JStr("ok"), JList(<<>>), JList(<<JStr("error")>>)}

Failures == {TransportFailure("Connection refused"), TransportFailure("Read timed out.")}

\* every response body, with status 200
RichServers ==
    {JsonResponse(200, v) : v \in JsonObjects \cup JsonOthers}
        \cup {TextResponse(200, t) : t \in RespTexts}

SmallServers ==
    Failures \cup
    {JsonResponse(200, JObj(<<<<"status", JStr("ok")>>>>)),
     JsonResponse(500, JObj(<<<<"status", JStr("ok")>>>>)),
     JsonResponse(200, JObj(<<<<"status", JStr("error")>>,
                              <<"data", JObj(<<<<"errors", JList(<<JStr("E1")>>)>>>>)>>>>)),
     TextResponse(200, "Jenkinsfile successfully validated\n"),
     TextResponse(404, "Not Found"),
     TextResponse(403, "ok")}

SmallEntries ==
    {Missing, Directory, File("denied", "pipeline {}"), File("undecodable", ""),
     File("ok", ""), File("ok", " \n\t"), File("ok", "pipeline\n{\n}"),
     File("ok", "@Library\n('lib') _"), File("ok", "echo 'hello'")}

\* the file systems in which one path of P holds an entry of E and the others are missing
FileSystems(P, E) == {[p \in Paths |-> IF p = q THEN e ELSE Missing] : q \in P, e \in E}

Urls ==
    {None, Some(""), Some("/"), Some("https://ci.example.com"), Some("https://ci.example.com/"),
     Some("https://ci.example.com//")}

Credentials ==
    {<<None, None>>, <<Some("user"), Some("token")>>, <<Some("user"), None>>,
     <<Some(""), Some("token")>>}

\* the constructor's arguments and the process environment
Arguments(u, n, t) == [jenkins_url |-> u, username |-> n, token |-> t]

Environment(u, n, t) == [JENKINS_URL |-> u, JENKINS_USER |-> n, JENKINS_TOKEN |-> t]

ArgValues == {None, Some(""), Some("arg")}

EnvValues == {None, Some(""), Some("env")}

\* the environment variable wins over the argument
__init__envfirst(a, env) ==
    [jenkins_url |-> PyOr(env.JENKINS_URL, a.jenkins_url),
     username |-> PyOr(env.JENKINS_USER, a.username),
     token |-> PyOr(env.JENKINS_TOKEN, a.token)]

\* JenkinsfileLinter.__init__
__init__(a, env) ==
    [jenkins_url |-> PyOr(a.jenkins_url, env.JENKINS_URL),
     username |-> PyOr(a.username, env.JENKINS_USER),
     token |-> PyOr(a.token, env.JENKINS_TOKEN)]

\* the linter is constructed from args in the environment environ
Constructed ==
    /\ jenkins_url = __init__(args, environ).jenkins_url
    /\ username = __init__(args, environ).username
    /\ token = __init__(args, environ).token

\* every configuration (taken from the environment), on a few files and a few servers
InitGeneral ==
    /\ args = Arguments(None, None, None)
    /\ \E u \in Urls, c \in Credentials : environ = Environment(u, c[1], c[2])
    /\ Constructed
    /\ fs \in FileSystems(Paths, SmallEntries)
    /\ server \in SmallServers

\* no service URL, every file text
InitFiles ==
    /\ args = Arguments(None, None, None)
    /\ environ = Environment(None, None, None)
    /\ Constructed
    /\ fs \in FileSystems({"Jenkinsfile"}, {File("ok", t) : t \in FileTexts})
    /\ server = TransportFailure("Connection refused")

\* a service URL, every response
InitResponses ==
    /\ \E c \in {<<None, None>>, <<Some("user"), Some("token")>>} :
          args = Arguments(Some("https://ci.example.com/"), c[1], c[2])
    /\ environ = Environment(None, None, Some("unused"))
    /\ Constructed
    /\ fs \in FileSystems({"ci/build.groovy"}, {File("ok", "pipeline { agent any }")})
    /\ server \in RichServers

\* every combination of arguments and environment variables, on one file and one server
InitConfig ==
    /\ \E u \in ArgValues, n \in ArgValues, t \in ArgValues : args = Arguments(u, n, t)
    /\ \E u \in EnvValues, n \in EnvValues, t \in EnvValues : environ = Environment(u, n, t)
    /\ Constructed
    /\ fs \in FileSystems({"Jenkinsfile"}, {File("ok", "pipeline { agent any }")})
    /\ server = JsonResponse(200, JObj(<<<<"status", JStr("ok")>>>>))

NoResult == [kind |-> "nocall"]

NoCall == [method |-> "none", path |-> ""]

\* the parsed command line
Argv(jenkinsfile, verbose, skip, include) ==
    [jenkinsfile |-> jenkinsfile, verbose |-> verbose, skip |-> skip, include |-> include]

\* main is not running: the linter is used as a library
MainIdle ==
    /\ argv = Argv(<<>>, FALSE, None, None)
    /\ pc = "library"
    /\ file_index = 0
    /\ all_valid = TRUE
    /\ printed_messages = {}
    /\ stdout = <<>>
    /\ stderr = <<>>
    /\ exit_code = None
    /\ processed = <<>>
    /\ posted = <<>>

Init ==
    /\ InitGeneral \/ InitFiles \/ InitResponses \/ InitConfig
    /\ MainIdle
    /\ op = NoCall
    /\ result = NoResult
    /\ reads = <<>>
    /\ requests = <<>>
    /\ calls = <<>>

\* a call of `method` on `path` with effect `eff`: op is the call, result its
\* outcome, reads, requests and calls what it did
Call(method, path, eff) ==
    /\ op' = [method |-> method, path |-> path]
    /\ result' = eff.result
    /\ reads' = eff.reads
    /\ requests' = eff.requests
    /\ calls' = eff.calls
    /\ pc = "library"
    /\ UNCHANGED <<args, environ, jenkins_url, username, token, fs, server, mainvars>>

CallValidate == \E path \in Paths : Call("validate", path, validate(path))

CallValidateWithJenkins ==
    \E path \in Paths : Call("_validate_with_jenkins", path, _validate_with_jenkins(path))

CallValidateSyntax ==
    \E path \in Paths : Call("_validate_syntax", path, _validate_syntax(path))

Next == CallValidate \/ CallValidateWithJenkins \/ CallValidateSyntax

Spec == Init /\ [][Next]_vars

(***************************************************************************)
(* Command line: the file filters of cli.py.                               *)
(***************************************************************************)
\* the components of a path or pattern: split at "/", with empty components
\* and "." components dropped (pathlib's parse_parts)
RECURSIVE SplitFrom(_, _, _)
SplitFrom(t, i, cur) ==
    LET keep == IF cur = "" \/ cur = "." THEN <<>> ELSE <<cur>>
    IN  IF i > Len(t) THEN keep
        ELSE IF SubSeq(t, i, i) = "/" THEN keep \o SplitFrom(t, i + 1, "")
        ELSE SplitFrom(t, i + 1, cur \o SubSeq(t, i, i))

Parts(t) == SplitFrom(t, 1, "")

\* the path or pattern starts at the root
Rooted(t) == Len(t) > 0 /\ SubSeq(t, 1, 1) = "/"

\* fnmatch.fnmatchcase(name, pat) for patterns of literals, `*` and `?`
RECURSIVE fnmatchcase(_, _)
fnmatchcase(name, pat) ==
    IF pat = "" THEN name = ""
    ELSE IF SubSeq(pat, 1, 1) = "*"
         THEN fnmatchcase(name, Tail(pat)) \/ (name # "" /\ fnmatchcase(Tail(name), pat))
    ELSE IF name = "" THEN FALSE
    ELSE IF SubSeq(pat, 1, 1) = "?" THEN fnmatchcase(Tail(name), Tail(pat))
    ELSE SubSeq(pat, 1, 1) = SubSeq(name, 1, 1) /\ fnmatchcase(Tail(name), Tail(pat))

\* the pattern is matched against the whole path, from its left end
match_anchored(path, pattern) ==
    LET parts == Parts(path)
        pat_parts == Parts(pattern)
    IN  /\ Rooted(pattern) = Rooted(path)
        /\ Len(pat_parts) = Len(parts)
        /\ \A k \in 1..Len(pat_parts) : fnmatchcase(parts[k], pat_parts[k])

\* PurePath(path).match(pattern), for a non-empty pattern
match(path, pattern) ==
    LET parts == Parts(path)
        pat_parts == Parts(pattern)
        shift == Len(parts) - Len(pat_parts)
    IN  /\ Rooted(pattern) => Rooted(path) /\ shift = 0
        /\ shift >= 0
        /\ \A k \in 1..Len(pat_parts) : fnmatchcase(parts[k + shift], pat_parts[k])

\* a pattern without components, for which PurePath.match raises
\* ValueError("empty pattern")
EmptyPattern(pattern) == ~Rooted(pattern) /\ Parts(pattern) = <<>>

\* a function returned value
Returns(value) == [kind |-> "return", value |-> value]

\* `for pattern in patterns: if path.match(pattern): return True`: the
\* patterns are tried in order up to the first that matches or raises;
\* found is the value returned at a match, otherwise is returned after the loop
FirstMatch(filepath, patterns, found, otherwise) ==
    LET stops == {k \in 1..Len(patterns) :
                     EmptyPattern(patterns[k]) \/ match(filepath, patterns[k])}
        first == CHOOSE k \in stops : \A j \in stops : k <= j
    IN  IF stops = {} THEN Returns(otherwise)
        ELSE IF EmptyPattern(patterns[first]) THEN Raises("ValueError")
        ELSE Returns(found)

\* `not patterns` for an Optional[List[str]]
NoPatterns(patterns) == patterns = None \/ patterns = Some(<<>>)

\* should_skip_file
should_skip_file(filepath, skip_patterns) ==
    IF NoPatterns(skip_patterns) THEN Returns(FALSE)
    ELSE FirstMatch(filepath, skip_patterns[1], TRUE, FALSE)

\* should_include_file
should_include_file(filepath, include_patterns) ==
    IF NoPatterns(include_patterns) THEN Returns(TRUE)
    ELSE FirstMatch(filepath, include_patterns[1], TRUE, FALSE)

(***************************************************************************)
(* The filters called on their own, as the tests of cli.py call them.      *)
(***************************************************************************)
\* number of patterns in a list
MaxPatterns == 2

FilterPaths ==
    {"Jenkinsfile", "src/Utils.groovy", "lib/src/MyClass.groovy", "vars/deploy.groovy",
     "/abs/ci/build.groovy"}

Patterns ==
    {"*.groovy", "*/src/*.groovy", "Jenkinsfile*", "s*.groovy", "lib/*.groovy", "/abs/ci/*", ""}

\* None, the empty list, and the lists of up to MaxPatterns patterns
PatternLists == {None} \cup {Some(q) : q \in SeqsUpTo(Patterns, MaxPatterns)}

\* the linter is not used (nothing is configured, no file exists); a path and
\* a list of patterns are at hand for the filters
InitFilters ==
    /\ args = Arguments(None, None, None)
    /\ environ = Environment(None, None, None)
    /\ Constructed
    /\ fs = [p \in Paths |-> Missing]
    /\ server = TransportFailure("Connection refused")
    /\ MainIdle
    /\ \E filepath \in FilterPaths, patterns \in PatternLists :
          op = [method |-> "none", path |-> filepath, patterns |-> patterns]
    /\ result = NoResult
    /\ reads = <<>>
    /\ requests = <<>>
    /\ calls = <<>>

\* a call of one of the filters on the path and the patterns at hand
FilterCall(method, outcome) ==
    /\ pc = "library"
    /\ op' = [op EXCEPT !.method = method]
    /\ result' = outcome
    /\ UNCHANGED <<args, environ, jenkins_url, username, token, fs, server, reads, requests,
                   calls, mainvars>>

CallShouldSkipFile ==
    FilterCall("should_skip_file", should_skip_file(op.path, op.patterns))

CallShouldIncludeFile ==
    FilterCall("should_include_file", should_include_file(op.path, op.patterns))

NextFilters == CallShouldSkipFile \/ CallShouldIncludeFile

SpecFilters == InitFilters /\ [][NextFilters]_vars

(***************************************************************************)
(* Command line: main.  stdout and stderr hold what main printed, one      *)
(* element for each print call; processed holds the calls of validate it   *)
(* made, in order, with their outcomes.                                    *)
(***************************************************************************)
\* number of paths on the command line
MaxFiles == 2

\* stand-ins for the two marks main prints, U+2713 (check mark) and U+2298
\* (circled division slash)
CheckMark == "[U+2713]"

SkipMark == "[U+2298]"

LineSkipped(jenkinsfile) == SkipMark \o " " \o jenkinsfile \o ": Skipped (matches skip pattern)"

LineNotIncluded(jenkinsfile) ==
    SkipMark \o " " \o jenkinsfile \o ": Skipped (does not match include pattern)"

LineValidating(jenkinsfile) == "Validating " \o jenkinsfile \o "..."

LineValid(jenkinsfile) == CheckMark \o " " \o jenkinsfile \o ": Valid"

LineMessage(message) == "  " \o message

\* `if cond: print(...)`
When(cond, lines) == IF cond THEN lines ELSE <<>>

\* a skip notice is printed in every run
SkipNotice_always(lines) == lines

\* `if args.verbose: print(...)` of a skip notice (lines 140 and 146)
SkipNotice(lines) == When(argv.verbose, lines)

\* the file is filtered out: `continue` without a call of validate
Filtered(lines) ==
    /\ stdout' = stdout \o lines
    /\ file_index' = file_index + 1
    /\ op' = NoCall
    /\ result' = NoResult
    /\ reads' = <<>>
    /\ requests' = <<>>
    /\ calls' = <<>>
    /\ UNCHANGED <<pc, all_valid, printed_messages, stderr, exit_code, processed, posted>>

\* a filter raised ValueError: the exception leaves main
FilterAborted ==
    /\ pc' = "crashed"
    /\ op' = NoCall
    /\ result' = NoResult
    /\ reads' = <<>>
    /\ requests' = <<>>
    /\ calls' = <<>>
    /\ UNCHANGED <<file_index, all_valid, printed_messages, stdout, stderr, exit_code, processed,
                   posted>>

\* the verdict's message is never printed for a valid file
Validated_quiet(jenkinsfile, r) ==
    /\ pc' = pc
    /\ file_index' = file_index + 1
    /\ IF r.valid
       THEN /\ stdout' = stdout \o When(argv.verbose, <<LineValidating(jenkinsfile)>>)
                                \o When(argv.verbose \/ Len(argv.jenkinsfile) > 1,
                                        <<LineValid(jenkinsfile)>>)
            /\ UNCHANGED <<all_valid, printed_messages, stderr>>
       ELSE /\ stdout' = stdout \o When(argv.verbose, <<LineValidating(jenkinsfile)>>)
            /\ stderr' = stderr \o When(r.message \notin printed_messages,
                                        <<LineMessage(r.message)>>)
            /\ printed_messages' = printed_messages \cup {r.message}
            /\ all_valid' = FALSE

\* the success line is printed only in verbose mode
Validated_verboseonly(jenkinsfile, r) ==
    /\ pc' = pc
    /\ file_index' = file_index + 1
    /\ IF r.valid
       THEN /\ stdout' = stdout \o When(argv.verbose, <<LineValidating(jenkinsfile)>>)
                                \o When(argv.verbose, <<LineValid(jenkinsfile)>>)
                                \o When(argv.verbose /\ r.message # "", <<LineMessage(r.message)>>)
            /\ UNCHANGED <<all_valid, printed_messages, stderr>>
       ELSE /\ stdout' = stdout \o When(argv.verbose, <<LineValidating(jenkinsfile)>>)
            /\ stderr' = stderr \o When(r.message \notin printed_messages,
                                        <<LineMessage(r.message)>>)
            /\ printed_messages' = printed_messages \cup {r.message}
            /\ all_valid' = FALSE

\* every failure message is printed, repeated or not
Validated_nodedup(jenkinsfile, r) ==
    /\ pc' = pc
    /\ file_index' = file_index + 1
    /\ IF r.valid
       THEN /\ stdout' = stdout \o When(argv.verbose, <<LineValidating(jenkinsfile)>>)
                                \o When(argv.verbose \/ Len(argv.jenkinsfile) > 1,
                                        <<LineValid(jenkinsfile)>>)
                                \o When(argv.verbose /\ r.message # "", <<LineMessage(r.message)>>)
            /\ UNCHANGED <<all_valid, printed_messages, stderr>>
       ELSE /\ stdout' = stdout \o When(argv.verbose, <<LineValidating(jenkinsfile)>>)
            /\ stderr' = stderr \o <<LineMessage(r.message)>>
            /\ printed_messages' = printed_messages \cup {r.message}
            /\ all_valid' = FALSE

\* in verbose mode a message is taken for new even when it was printed before
IsNewMessage_verbose(message) == argv.verbose \/ message \notin printed_messages

\* `if message not in printed_messages` (line 163)
IsNewMessage(message) == message \notin printed_messages

\* the set holds the last message only
Remember_last(message) == {message}

\* printed_messages.add(message) (line 165)
Remember(message) == printed_messages \cup {message}

\* validate returned the verdict r: lines 154-166
Validated(jenkinsfile, r) ==
    /\ pc' = pc
    /\ file_index' = file_index + 1
    /\ IF r.valid
       THEN /\ stdout' = stdout \o When(argv.verbose, <<LineValidating(jenkinsfile)>>)
                                \o When(argv.verbose \/ Len(argv.jenkinsfile) > 1,
                                        <<LineValid(jenkinsfile)>>)
                                \o When(argv.verbose /\ r.message # "", <<LineMessage(r.message)>>)
            /\ UNCHANGED <<all_valid, printed_messages, stderr>>
       ELSE /\ stdout' = stdout \o When(argv.verbose, <<LineValidating(jenkinsfile)>>)
            /\ stderr' = stderr \o When(IsNewMessage(r.message), <<LineMessage(r.message)>>)
            /\ printed_messages' = Remember(r.message)
            /\ all_valid' = FALSE

\* validate raised, or returned None which line 154 cannot unpack (TypeError):
\* the exception leaves main
Aborted(jenkinsfile) ==
    /\ pc' = "crashed"
    /\ stdout' = stdout \o When(argv.verbose, <<LineValidating(jenkinsfile)>>)
    /\ UNCHANGED <<file_index, all_valid, printed_messages, stderr>>

\* one turn of `for jenkinsfile in args.jenkinsfile` (lines 137-166)
MainStep ==
    /\ pc = "loop"
    /\ file_index <= Len(argv.jenkinsfile)
    /\ LET jenkinsfile == argv.jenkinsfile[file_index]
           skip == should_skip_file(jenkinsfile, argv.skip)
           include == should_include_file(jenkinsfile, argv.include)
           eff == validate(jenkinsfile)
       IN  IF skip.kind = "raise" THEN FilterAborted
           ELSE IF skip.value
           THEN Filtered(SkipNotice(<<LineSkipped(jenkinsfile)>>))
           ELSE IF include.kind = "raise" THEN FilterAborted
           ELSE IF ~include.value
           THEN Filtered(SkipNotice(<<LineNotIncluded(jenkinsfile)>>))
           ELSE /\ op' = [method |-> "validate", path |-> jenkinsfile]
                /\ result' = eff.result
                /\ reads' = eff.reads
                /\ requests' = eff.requests
                /\ calls' = eff.calls
                /\ processed' = Append(processed, [path |-> jenkinsfile, result |-> eff.result])
                /\ posted' = posted \o eff.requests
                /\ IF eff.result.kind = "verdict"
                   THEN Validated(jenkinsfile, eff.result)
                   ELSE Aborted(jenkinsfile)
                /\ UNCHANGED exit_code
    /\ UNCHANGED <<args, environ, jenkins_url, username, token, fs, server, argv>>

\* the exit code tells nothing: always 0
MainExit_zero ==
    /\ pc = "loop"
    /\ file_index > Len(argv.jenkinsfile)
    /\ pc' = "exited"
    /\ exit_code' = Some(0)
    /\ UNCHANGED <<args, environ, jenkins_url, username, token, fs, server, op, result, reads,
                   requests, calls, argv, file_index, all_valid, printed_messages, stdout,
                   stderr, processed, posted>>

\* sys.exit(0 if all_valid else 1) (line 169)
MainExit ==
    /\ pc = "loop"
    /\ file_index > Len(argv.jenkinsfile)
    /\ pc' = "exited"
    /\ exit_code' = Some(IF all_valid THEN 0 ELSE 1)
    /\ UNCHANGED <<args, environ, jenkins_url, username, token, fs, server, op, result, reads,
                   requests, calls, argv, file_index, all_valid, printed_messages, stdout,
                   stderr, processed, posted>>

\* the files of a run: missing, a pipeline, empty, or not UTF-8
MainEntries ==
    {Missing, File("ok", "pipeline { agent any }"), File("ok", ""), File("undecodable", "")}

\* the --skip and --include lists of a run (None for an option that is not given)
Filters ==
    {<<None, None>>,
     <<Some(<<"*.groovy">>), None>>,
     <<None, Some(<<"ci/*">>)>>,
     <<Some(<<"build.*">>), Some(<<"ci/*", "J?nkinsfile">>)>>,
     <<Some(<<"/ci/*", "*file">>), Some(<<"*.groovy">>)>>,
     <<Some(<<"*.groovy", "">>), None>>,
     <<None, Some(<<"">>)>>}

MainUrl == Some("https://ci.example.com")

\* the service of a run: accepts, rejects, cannot be reached, or answers with a JSON list
MainServers ==
    {JsonResponse(200, JObj(<<<<"status", JStr("ok")>>>>)),
     JsonResponse(200, JObj(<<<<"status", JStr("error")>>,
                              <<"data", JObj(<<<<"errors", JList(<<JStr("E1")>>)>>>>)>>>>)),
     TransportFailure("Connection refused"),
     JsonResponse(200, JList(<<>>))}

\* no service URL; a URL and credentials on the command line; a URL in the environment
MainConfigs ==
    {[args |-> Arguments(None, None, None), environ |-> Environment(None, None, None),
      server |-> TransportFailure("Connection refused")]}
    \cup {[args |-> Arguments(MainUrl, Some("user"), Some("token")),
           environ |-> Environment(None, None, None), server |-> sv] : sv \in MainServers}
    \cup {[args |-> Arguments(None, None, None), environ |-> Environment(MainUrl, None, None),
           server |-> JsonResponse(200, JObj(<<<<"status", JStr("ok")>>>>))]}

\* main has parsed its command line and constructed the linter (lines 56-135)
InitMain ==
    /\ \E files \in SeqsUpTo(Paths, MaxFiles) \ {<<>>}, verbose \in BOOLEAN, f \in Filters :
          argv = Argv(files, verbose, f[1], f[2])
    /\ \E c \in MainConfigs : args = c.args /\ environ = c.environ /\ server = c.server
    /\ Constructed
    /\ fs \in [Paths -> MainEntries]
    /\ pc = "loop"
    /\ file_index = 1
    /\ all_valid = TRUE
    /\ printed_messages = {}
    /\ stdout = <<>>
    /\ stderr = <<>>
    /\ exit_code = None
    /\ processed = <<>>
    /\ posted = <<>>
    /\ op = NoCall
    /\ result = NoResult
    /\ reads = <<>>
    /\ requests = <<>>
    /\ calls = <<>>

NextMain == MainStep \/ MainExit

SpecMain == InitMain /\ [][NextMain]_vars

(***************************************************************************)
(* Properties                                                              *)
(***************************************************************************)
\* this step is the call method(path)
Called(method, path) == op' = [method |-> method, path |-> path]

\* the last call made
LastOp == op

\* a service URL is configured
UrlConfigured == jenkins_url # None /\ jenkins_url # Some("")

\* the path is a regular file whose text can be read
Readable(path) == fs[path].kind = "file" /\ fs[path].mode = "ok"

\* the text is empty or whitespace only
Blank(t) == \A i \in 1..Len(t) : SubSeq(t, i, i) \in Whitespace

\* the text has `word`, then optional whitespace, then `open`, anywhere
HasOpener(t, word, open) ==
    \E i \in 1..(Len(t) - Len(word) + 1) : \E j \in i..Len(t) :
        /\ SubSeq(t, i, i + Len(word) - 1) = word
        /\ j >= i + Len(word)
        /\ Blank(SubSeq(t, i + Len(word), j - 1))
        /\ SubSeq(t, j, j) = open

\* the text has `m` at a place where no letter, digit or underscore precedes it
ContainsAtBoundary(t, m) ==
    \E i \in 1..(Len(t) - Len(m) + 1) :
        /\ SubSeq(t, i, i + Len(m) - 1) = m
        /\ i > 1 => ~Contains(WordChars, SubSeq(t, i - 1, i - 1))

\* C1: validate on a path that is not an existing regular file returns
\* (False, "File not found: <path>"), with or without a service URL, and
\* neither opens the file nor sends a request.
C1_FileNotFound ==
    [][\A p \in Paths :
          (Called("validate", p) /\ fs[p].kind # "file") =>
              /\ result' = Verdict(FALSE, "File not found: " \o p)
              /\ Contains(result'.message, p)
              /\ reads' = <<>>
              /\ requests' = <<>>]_vars

\* validate was called on a directory while a service URL is configured
C1_Witness ==
    /\ LastOp.method = "validate"
    /\ fs[LastOp.path].kind = "dir"
    /\ UrlConfigured
    /\ result.kind = "verdict" /\ ~result.valid

\* C2: on an existing regular file validate yields what _validate_with_jenkins
\* yields when a service URL is configured and what _validate_syntax yields
\* when none is; a request is sent only in the first case and the heuristic
\* is entered only in the second.
C2_Dispatch ==
    [][\A p \in Paths :
          (Called("validate", p) /\ fs[p].kind = "file") =>
              /\ UrlConfigured =>
                    /\ result' = _validate_with_jenkins(p).result
                    /\ calls' = <<"validate", "_validate_with_jenkins">>
              /\ ~UrlConfigured =>
                    /\ result' = _validate_syntax(p).result
                    /\ calls' = <<"validate", "_validate_syntax">>
                    /\ requests' = <<>>]_vars

\* validate took the remote path and sent a request
C2_Witness ==
    /\ LastOp.method = "validate"
    /\ fs[LastOp.path].kind = "file"
    /\ UrlConfigured
    /\ requests # <<>>
    /\ calls = <<"validate", "_validate_with_jenkins">>

\* validate took the local path, with the service URL set to the empty string
C2_WitnessLocal ==
    /\ LastOp.method = "validate"
    /\ fs[LastOp.path].kind = "file"
    /\ jenkins_url = Some("")
    /\ calls = <<"validate", "_validate_syntax">>

\* C3 as stated: every readable text containing `pipeline {` or `@Library(`
\* anywhere passes the local heuristic.
C3_Original ==
    [][\A p \in Paths :
          (/\ Called("_validate_syntax", p)
           /\ Readable(p)
           /\ Contains(fs[p].content, "pipeline {") \/ Contains(fs[p].content, "@Library(")) =>
              result' = Verdict(TRUE, MsgAppearsValid)]_vars

\* C3 amended: every readable text containing `pipeline {` not directly
\* preceded by a letter, digit or underscore, or `@Library(` anywhere, passes
\* the local heuristic with the 'appears valid' message.
C3_MarkerPasses ==
    [][\A p \in Paths :
          (/\ Called("_validate_syntax", p)
           /\ Readable(p)
           /\ \/ ContainsAtBoundary(fs[p].content, "pipeline {")
              \/ Contains(fs[p].content, "@Library(")) =>
              /\ result' = Verdict(TRUE, MsgAppearsValid)
              /\ Contains(result'.message, "appears valid")]_vars

\* the heuristic passed a text whose `pipeline {` is not at its start
C3_Witness ==
    /\ LastOp.method = "_validate_syntax"
    /\ Readable(LastOp.path)
    /\ Contains(fs[LastOp.path].content, "pipeline {")
    /\ SubSeq(fs[LastOp.path].content, 1, 1) # "p"
    /\ result = Verdict(TRUE, MsgAppearsValid)

\* C4 as stated: every readable non-blank text with neither a pipeline opener
\* nor `@Library(` fails the local heuristic.
C4_Original ==
    [][\A p \in Paths :
          (/\ Called("_validate_syntax", p)
           /\ Readable(p)
           /\ ~Blank(fs[p].content)
           /\ ~HasOpener(fs[p].content, "pipeline", "{")
           /\ ~Contains(fs[p].content, "@Library(")) =>
              result' = Verdict(FALSE, MsgNoPipeline)]_vars

\* C4 amended: every readable non-blank text with neither a pipeline opener
\* nor `@Library` followed by optional whitespace and `(` fails the local
\* heuristic with the 'does not appear to contain a pipeline declaration'
\* message.
C4_NoMarkerFails ==
    [][\A p \in Paths :
          (/\ Called("_validate_syntax", p)
           /\ Readable(p)
           /\ ~Blank(fs[p].content)
           /\ ~HasOpener(fs[p].content, "pipeline", "{")
           /\ ~HasOpener(fs[p].content, "@Library", "(")) =>
              /\ result' = Verdict(FALSE, MsgNoPipeline)
              /\ Contains(result'.message, "does not appear to contain a pipeline declaration")]_vars

\* the heuristic rejected a text that has the word pipeline but no brace
C4_Witness ==
    /\ LastOp.method = "_validate_syntax"
    /\ Readable(LastOp.path)
    /\ Contains(fs[LastOp.path].content, "pipeline")
    /\ ~Contains(fs[LastOp.path].content, "{")
    /\ result = Verdict(FALSE, MsgNoPipeline)

\* C5: every readable file that is empty or whitespace only fails the local
\* heuristic with a message mentioning 'empty', whatever else the checks
\* that follow would say.
C5_EmptyFails ==
    [][\A p \in Paths :
          (Called("_validate_syntax", p) /\ Readable(p) /\ Blank(fs[p].content)) =>
              /\ result'.kind = "verdict"
              /\ ~result'.valid
              /\ Contains(result'.message, "empty")
              /\ result'.message # MsgNoPipeline]_vars

\* the heuristic rejected a file of whitespace, not of zero length
C5_Witness ==
    /\ LastOp.method = "_validate_syntax"
    /\ Readable(LastOp.path)
    /\ fs[LastOp.path].content # ""
    /\ Blank(fs[LastOp.path].content)
    /\ result = Verdict(FALSE, MsgEmpty)

RemoteMethods == {"validate", "_validate_with_jenkins"}

\* this step is a remote validation of path whose request is answered with a
\* response that is no HTTP error
RemoteAnswered(path) ==
    /\ \E m \in RemoteMethods : Called(m, path)
    /\ UrlConfigured
    /\ Readable(path)
    /\ server.kind = "response"
    /\ server.status < 400

\* the answered remote validation carries a JSON object whose status is not "ok"
RemoteNotOk(path) ==
    /\ RemoteAnswered(path)
    /\ server.isJson
    /\ server.json.t = "dict"
    /\ ~\E i \in 1..Len(server.json.fields) :
          server.json.fields[i] = <<"status", JStr("ok")>>

\* the value of a field of a JSON object that has it
Field(obj, key) == obj.fields[CHOOSE i \in 1..Len(obj.fields) : obj.fields[i][1] = key][2]

\* the JSON object has a data object with an errors list
HasErrorsList(obj) ==
    /\ HasKey(obj, "data")
    /\ Field(obj, "data").t = "dict"
    /\ HasKey(Field(obj, "data"), "errors")
    /\ Field(Field(obj, "data"), "errors").t = "list"

ErrorsList(obj) == Field(Field(obj, "data"), "errors").items

\* the last call was a remote validation answered with a JSON object
LastRemoteJson ==
    /\ LastOp.method \in RemoteMethods
    /\ UrlConfigured
    /\ Readable(LastOp.path)
    /\ server.kind = "response"
    /\ server.status = 200
    /\ server.isJson
    /\ server.json.t = "dict"

\* C6: a JSON object with status "ok" is a success with the success message,
\* whatever else the object holds.
C6_StatusOk ==
    [][\A p \in Paths :
          (/\ RemoteAnswered(p)
           /\ server.isJson
           /\ server.json.t = "dict"
           /\ \E i \in 1..Len(server.json.fields) :
                 server.json.fields[i] = <<"status", JStr("ok")>>) =>
              result' = Verdict(TRUE, MsgValidated)]_vars

\* a status "ok" object that also lists errors was accepted
C6_Witness ==
    /\ LastRemoteJson
    /\ HasKey(server.json, "status")
    /\ Field(server.json, "status") = JStr("ok")
    /\ HasErrorsList(server.json)
    /\ ErrorsList(server.json) # <<>>
    /\ result = Verdict(TRUE, MsgValidated)

\* C7 as stated: a JSON object whose status is not "ok" and which has a
\* data.errors list of any length, the empty one included, yields
\* (False, "Validation errors:\n" + the elements joined by newlines).
C7_Original ==
    [][\A p \in Paths :
          (RemoteNotOk(p) /\ HasErrorsList(server.json)) =>
              LET errs == ErrorsList(server.json)
              IN result' = Verdict(FALSE, "Validation errors:\n"
                                     \o Join("\n", [i \in 1..Len(errs) |-> PyStr(errs[i])]))]_vars

\* C7 amended: a JSON object whose status is not "ok" and which has a
\* non-empty data.errors list yields (False, "Validation errors:\n" + the
\* elements, each as text, in list order, joined by newlines).
C7_ErrorsListed ==
    [][\A p \in Paths :
          (RemoteNotOk(p) /\ HasErrorsList(server.json) /\ ErrorsList(server.json) # <<>>) =>
              LET errs == ErrorsList(server.json)
              IN result' = Verdict(FALSE, "Validation errors:\n"
                                     \o Join("\n", [i \in 1..Len(errs) |-> PyStr(errs[i])]))]_vars

\* two different errors were reported in the order of the list
C7_Witness ==
    /\ LastRemoteJson
    /\ HasErrorsList(server.json)
    /\ ErrorsList(server.json) = <<JStr("E2"), JStr("E1")>>
    /\ result = Verdict(FALSE, "Validation errors:\nE2\nE1")

\* C8: a JSON object whose status is not "ok" and which has no data.errors
\* (no data field, or a data field of any type without errors) yields
\* (False, the whole object as text).
C8_Opaque ==
    [][\A p \in Paths :
          (/\ RemoteNotOk(p)
           /\ \/ ~HasKey(server.json, "data")
              \/ Field(server.json, "data").t # "dict"
              \/ ~HasKey(Field(server.json, "data"), "errors")) =>
              result' = Verdict(FALSE, PyStr(server.json))]_vars

\* the text of a response body that is not JSON, trimmed
Trimmed == Strip(server.text)

\* C9: a body that is not JSON is a failure exactly when its trimmed text
\* contains one of the seven markers, and the message is the trimmed text.
C9_TextMarkers ==
    [][\A p \in Paths :
          (RemoteAnswered(p) /\ ~server.isJson) =>
              LET marked == \E m \in {"Errors", "error", "No Jenkinsfile specified",
                                      "WorkflowScript:", "Expected", "unexpected token",
                                      "unable to resolve class"} : Contains(Trimmed, m)
              IN result' = Verdict(~marked, Trimmed)]_vars

\* a text with the marker "Expected" and no other marker was rejected
C9_Witness ==
    /\ LastOp.method \in RemoteMethods
    /\ UrlConfigured
    /\ Readable(LastOp.path)
    /\ server.kind = "response" /\ server.status = 200 /\ ~server.isJson
    /\ Contains(server.text, "Expected")
    /\ ~Contains(server.text, "rror")
    /\ server.text # Strip(server.text)
    /\ result = Verdict(FALSE, Strip(server.text))

\* a text with "Error", which is no marker, was accepted
C9_WitnessPass ==
    /\ LastOp.method \in RemoteMethods
    /\ UrlConfigured
    /\ Readable(LastOp.path)
    /\ server.kind = "response" /\ server.status = 200 /\ ~server.isJson
    /\ Contains(server.text, "Error")
    /\ result = Verdict(TRUE, Strip(server.text))

\* the request failed in transport or was answered with a 4xx or 5xx status
RequestFailed == server.kind = "exception" \/ server.status >= 400

\* C10: a transport failure or an HTTP error status yields (False, "Error
\* connecting to Jenkins: <cause>") at once: one request, no second attempt,
\* no local heuristic, and the body of the response plays no part.
C10_TransportFailure ==
    [][\A p \in Paths :
          (/\ \E m \in RemoteMethods : Called(m, p)
           /\ UrlConfigured
           /\ Readable(p)
           /\ RequestFailed) =>
              /\ result'.kind = "verdict"
              /\ ~result'.valid
              /\ SubSeq(result'.message, 1, Len("Error connecting to")) = "Error connecting to"
              /\ server.kind = "exception" =>
                    result'.message = "Error connecting to Jenkins: " \o server.cause
              /\ server.kind = "response" =>
                    Contains(result'.message, ToString(server.status))
              /\ Len(requests') = 1
              /\ \A i \in 1..Len(calls') : calls'[i] # "_validate_syntax"]_vars

\* a 500 response whose body says status "ok" was reported as a failure
C10_Witness ==
    /\ LastOp.method \in RemoteMethods
    /\ UrlConfigured
    /\ Readable(LastOp.path)
    /\ server = JsonResponse(500, JObj(<<<<"status", JStr("ok")>>>>))
    /\ result.kind = "verdict" /\ ~result.valid
    /\ Len(requests) = 1

\* this step is a call that opened the file at path
ReadBy(path) ==
    /\ \E m \in {"validate", "_validate_with_jenkins", "_validate_syntax"} : Called(m, path)
    /\ reads' = <<path>>

\* C11: whenever reading the file fails, for any cause (missing file, no
\* permission, bytes that are not UTF-8), remote validation and the local
\* heuristic return (False, "Error reading file: <cause>") rather than raise,
\* and no request is sent.
C11_ReadFailure ==
    [][\A p \in Paths :
          (ReadBy(p) /\ ~(fs[p].kind = "file" /\ fs[p].mode = "ok")) =>
              /\ result'.kind = "verdict"
              /\ ~result'.valid
              /\ SubSeq(result'.message, 1, Len("Error reading file: ")) = "Error reading file: "
              /\ requests' = <<>>]_vars

\* a value is present: set, and not the empty string
Present(o) == o # None /\ o # Some("")

\* C12: every request is a POST whose only form field is jenkinsfile, holding
\* the text of the file, with a timeout of 30 seconds; it carries the pair
\* (username, token) as credentials exactly when both are present (set and
\* not empty), and no credentials otherwise.
C12_Request ==
    [][\A p \in Paths :
          ((\E m \in RemoteMethods : Called(m, p)) /\ requests' # <<>>) =>
              /\ Len(requests') = 1
              /\ requests'[1].method = "POST"
              /\ requests'[1].data = <<<<"jenkinsfile", fs[p].content>>>>
              /\ requests'[1].timeout = 30
              /\ (Present(username) /\ Present(token)) =>
                    requests'[1].auth = <<username[1], token[1]>>
              /\ ~(Present(username) /\ Present(token)) => requests'[1].auth = None]_vars

\* a request went out without credentials although a user name is set
C12_Witness ==
    /\ LastOp.method \in RemoteMethods
    /\ requests # <<>>
    /\ username = Some("user")
    /\ token = None
    /\ requests[1].auth = None

\* a request went out with both credentials
C12_WitnessAuth ==
    /\ LastOp.method \in RemoteMethods
    /\ requests # <<>>
    /\ requests[1].auth = <<"user", "token">>

\* the value the claim gives a field: the argument when given, else the variable
ArgumentFirst(arg, env) == IF arg # None THEN arg ELSE env

\* C13 as stated: a field equals the explicit argument whenever one is given,
\* whatever its value, otherwise the environment variable's value, otherwise None.
C13_Original ==
    /\ jenkins_url = ArgumentFirst(args.jenkins_url, environ.JENKINS_URL)
    /\ username = ArgumentFirst(args.username, environ.JENKINS_USER)
    /\ token = ArgumentFirst(args.token, environ.JENKINS_TOKEN)

\* the value the code gives a field
NonEmptyArgumentFirst(arg, env) == IF arg # None /\ arg # Some("") THEN arg ELSE env

\* C13: each field is resolved on its own: it equals the explicit argument
\* whenever a non-empty one is given, otherwise the value of its environment
\* variable when that is set, otherwise None; no call changes it.
C13_Resolved ==
    /\ jenkins_url = NonEmptyArgumentFirst(args.jenkins_url, environ.JENKINS_URL)
    /\ username = NonEmptyArgumentFirst(args.username, environ.JENKINS_USER)
    /\ token = NonEmptyArgumentFirst(args.token, environ.JENKINS_TOKEN)

\* an empty argument gave way to the environment for one field while the
\* other fields took their argument and their absence
C13_Witness ==
    /\ args.jenkins_url = Some("")
    /\ environ.JENKINS_URL = Some("env")
    /\ jenkins_url = Some("env")
    /\ args.username = Some("arg")
    /\ environ.JENKINS_USER = Some("env")
    /\ username = Some("arg")
    /\ args.token = None
    /\ environ.JENKINS_TOKEN = None
    /\ token = None
    /\ LastOp.method = "validate"

(***************************************************************************)
(* Properties of main                                                      *)
(***************************************************************************)
\* some pattern of the list matches the path
SomeMatch(path, patterns) ==
    /\ patterns # None
    /\ \E k \in 1..Len(patterns[1]) :
          ~EmptyPattern(patterns[1][k]) /\ match(path, patterns[1][k])

\* the path passes the filters of this run
Passes(path) ==
    /\ ~SomeMatch(path, argv.skip)
    /\ argv.include = None \/ SomeMatch(path, argv.include)

\* the files validate gave a verdict for, valid or not
ValidOnes == {k \in 1..Len(processed) :
                 processed[k].result.kind = "verdict" /\ processed[k].result.valid}

InvalidOnes == {k \in 1..Len(processed) :
                   processed[k].result.kind = "verdict" /\ ~processed[k].result.valid}

\* C14: when main exits, the exit code is 0 exactly when every processed
\* (non-skipped) file received a valid verdict, which includes the run in
\* which every file was skipped, and 1 exactly when some processed file
\* received an invalid verdict.
C14_ExitCode ==
    pc = "exited" =>
        /\ exit_code = Some(0) <=> ValidOnes = 1..Len(processed)
        /\ exit_code = Some(1) <=> InvalidOnes # {}

\* every file was skipped and main exited with 0
C14_Witness ==
    /\ pc = "exited"
    /\ Len(argv.jenkinsfile) = 2
    /\ processed = <<>>
    /\ exit_code = Some(0)

\* one file was skipped, the other is invalid, and main exited with 1
C14_WitnessFail ==
    /\ pc = "exited"
    /\ Len(argv.jenkinsfile) = 2
    /\ Len(processed) = 1
    /\ InvalidOnes = {1}
    /\ exit_code = Some(1)

\* the elements of a sequence, each kept at its first occurrence only
RECURSIVE FirstOccurrences(_)
FirstOccurrences(q) ==
    IF q = <<>> THEN <<>>
    ELSE LET front == SubSeq(q, 1, Len(q) - 1)
             last == q[Len(q)]
         IN IF \E k \in 1..Len(front) : front[k] = last
            THEN FirstOccurrences(front)
            ELSE Append(FirstOccurrences(front), last)

\* the failure messages of the processed files, in input order
RECURSIVE FailureMessages(_)
FailureMessages(q) ==
    IF q = <<>> THEN <<>>
    ELSE LET r == q[Len(q)].result
         IN FailureMessages(SubSeq(q, 1, Len(q) - 1))
                \o (IF r.kind = "verdict" /\ ~r.valid THEN <<LineMessage(r.message)>> ELSE <<>>)

\* C15: at every point of a run the error stream holds every distinct failure
\* message produced so far exactly once, in the order of the first file that
\* produced each; a file whose message was already printed still makes the
\* run fail, so the exit code is 1 whenever some file failed.
C15_Dedup ==
    /\ stderr = FirstOccurrences(FailureMessages(processed))
    /\ all_valid <=> InvalidOnes = {}
    /\ (pc = "exited" /\ InvalidOnes # {}) => exit_code = Some(1)

\* two files failed with the same message: it is on the error stream once
C15_Witness ==
    /\ pc = "exited"
    /\ InvalidOnes = {1, 2}
    /\ processed[1].result.message = processed[2].result.message
    /\ Len(stderr) = 1
    /\ exit_code = Some(1)

\* this step is a turn of the loop, for the file jenkinsfile
Turn(jenkinsfile) ==
    /\ pc = "loop"
    /\ file_index <= Len(argv.jenkinsfile)
    /\ argv.jenkinsfile[file_index] = jenkinsfile
    /\ pc' # "exited"

\* C16: in a turn of the loop the path is passed to validate if and only if
\* it matches no skip pattern and the include list is empty or holds a
\* matching pattern; a path that is filtered out is not validated, causes no
\* request and nothing on the error stream, and prints exactly one skip
\* notice in verbose mode (none otherwise), the skip-pattern notice when a
\* skip pattern matches.
C16_Filters ==
    [][\A p \in Paths :
          Turn(p) =>
              /\ Called("validate", p) <=> Passes(p)
              /\ ~Passes(p) =>
                    /\ op' = NoCall
                    /\ requests' = <<>>
                    /\ processed' = processed
                    /\ stderr' = stderr
                    /\ stdout' = stdout \o
                          (IF ~argv.verbose THEN <<>>
                           ELSE IF SomeMatch(p, argv.skip) THEN <<LineSkipped(p)>>
                           ELSE <<LineNotIncluded(p)>>)]_vars

\* a path matching a skip pattern and an include pattern was filtered out
\* with the skip-pattern notice
C16_Witness ==
    /\ file_index = 2
    /\ SomeMatch(argv.jenkinsfile[1], argv.skip)
    /\ SomeMatch(argv.jenkinsfile[1], argv.include)
    /\ op = NoCall
    /\ stdout = <<LineSkipped(argv.jenkinsfile[1])>>

\* a path that passes both filters was validated
C16_WitnessPasses ==
    /\ file_index = 2
    /\ argv.skip # None
    /\ argv.include # None
    /\ LastOp = [method |-> "validate", path |-> argv.jenkinsfile[1]]

\* the paths of the command line that pass the filters, in order
RECURSIVE PassingPaths(_)
PassingPaths(q) ==
    IF q = <<>> THEN <<>>
    ELSE PassingPaths(SubSeq(q, 1, Len(q) - 1))
            \o (IF Passes(q[Len(q)]) THEN <<q[Len(q)]>> ELSE <<>>)

\* C17: no outcome of a file ends the run: main never leaves the loop by an
\* exception, and when it exits it has validated every path that passes the
\* filters exactly once, in the order given, and the exit code is 0 or 1.
C17_NeverAborts ==
    /\ pc # "crashed"
    /\ pc = "exited" =>
          /\ [k \in 1..Len(processed) |-> processed[k].path] = PassingPaths(argv.jenkinsfile)
          /\ exit_code \in {Some(0), Some(1)}

\* str.lower() on ASCII text
RECURSIVE Lower(_)
Lower(t) ==
    IF t = "" THEN ""
    ELSE LET c == SubSeq(t, 1, 1)
             upper == "ABCDEFGHIJKLMNOPQRSTUVWXYZ"
             lower == "abcdefghijklmnopqrstuvwxyz"
             at == {i \in 1..26 : SubSeq(upper, i, i) = c}
         IN (IF at = {} THEN c ELSE SubSeq(lower, CHOOSE i \in at : TRUE, CHOOSE i \in at : TRUE))
                \o Lower(Tail(t))

\* some line of the stream contains the text
Mentions(stream, text) == \E k \in 1..Len(stream) : Contains(stream[k], text)

\* main ran to its exit on the single file `pipeline { agent any }`, with no
\* service URL and no filter
SinglePipelineRun ==
    /\ pc = "exited"
    /\ jenkins_url = None
    /\ Len(argv.jenkinsfile) = 1
    /\ argv.skip = None
    /\ argv.include = None
    /\ fs[argv.jenkinsfile[1]] = File("ok", "pipeline { agent any }")

C18_WitnessQuiet ==
    /\ SinglePipelineRun
    /\ ~argv.verbose
    /\ stdout = <<>>

\* C19: with no Jenkins URL configured, main on existing files exits with 1
\* and the error stream holds a 'credentials required' message (in any
\* letter case), exactly once however many files there are.
C19_CredentialsRequired ==
    (/\ pc = "exited"
     /\ jenkins_url = None
     /\ processed # <<>>
     /\ \A k \in 1..Len(processed) : IsFile(fs, processed[k].path)) =>
        /\ exit_code = Some(1)
        /\ Cardinality({k \in 1..Len(stderr) :
                           Contains(Lower(stderr[k]), "credentials required")}) = 1

\* this step is a turn of the loop in which validate accepted the file
Accepted(jenkinsfile) ==
    /\ Turn(jenkinsfile)
    /\ Called("validate", jenkinsfile)
    /\ result'.kind = "verdict"
    /\ result'.valid

\* the success lines of a stream
SuccessLines(stream) == SelectSeq(stream, LAMBDA line : \E p \in Paths : line = LineValid(p))

\* C20: for a file that main validates successfully, the success line is
\* printed, once and on standard output, exactly when the verbose flag is set
\* or more than one path was supplied (skipped paths count); with a single
\* path and no verbose flag a successful turn prints nothing at all.
C20_SuccessLine ==
    [][\A p \in Paths :
          Accepted(p) =>
              /\ SuccessLines(stdout') =
                    SuccessLines(stdout) \o
                       (IF argv.verbose \/ Len(argv.jenkinsfile) > 1
                        THEN <<LineValid(p)>> ELSE <<>>)
              /\ stderr' = stderr
              /\ (~argv.verbose /\ Len(argv.jenkinsfile) = 1) => stdout' = stdout]_vars

\* two paths were supplied, one was skipped, and the other got its success
\* line without the verbose flag
C20_Witness ==
    /\ pc = "exited"
    /\ ~argv.verbose
    /\ Len(argv.jenkinsfile) = 2
    /\ Len(processed) = 1
    /\ stdout = <<LineValid(processed[1].path)>>

\* a single path without the verbose flag: valid, and nothing printed
C20_WitnessQuiet ==
    /\ pc = "exited"
    /\ ~argv.verbose
    /\ Len(argv.jenkinsfile) = 1
    /\ ValidOnes = {1}
    /\ stdout = <<>>
    /\ stderr = <<>>

(***************************************************************************)
(* Properties of the filters                                               *)
(***************************************************************************)
\* this step is the call method(op.path, op.patterns)
FilterCalled(method) == op'.method = method /\ op'.path = op.path /\ result' # NoResult

\* the patterns of an Optional list
ListOf(patterns) == IF patterns = None THEN <<>> ELSE patterns[1]

Reversed(q) == [k \in 1..Len(q) |-> q[Len(q) + 1 - k]]

\* the list with its patterns in reverse order, and with every pattern twice
ReversedList(patterns) == IF patterns = None THEN None ELSE Some(Reversed(patterns[1]))

DoubledList(patterns) == IF patterns = None THEN None ELSE Some(patterns[1] \o patterns[1])

\* C23: should_skip_file is true exactly when some pattern of the list
\* matches the path, should_include_file exactly when the list is empty or
\* None or some pattern matches; both results are the same for the list in
\* another order and for the list with its patterns repeated.
C23_LogicalOr ==
    [][/\ FilterCalled("should_skip_file") =>
             /\ result' = Returns(SomeMatch(op.path, op.patterns))
             /\ result' = should_skip_file(op.path, ReversedList(op.patterns))
             /\ result' = should_skip_file(op.path, DoubledList(op.patterns))
       /\ FilterCalled("should_include_file") =>
             /\ result' = Returns(ListOf(op.patterns) = <<>> \/ SomeMatch(op.path, op.patterns))
             /\ result' = should_include_file(op.path, ReversedList(op.patterns))
             /\ result' = should_include_file(op.path, DoubledList(op.patterns))]_vars

\* the glob pattern matches the whole text, where `*` and `?` stand for
\* characters other than "/": the positions of the pattern that can be
\* reached after each character of the text
StarClosure(S, pat) ==
    {j \in 0..Len(pat) :
        \E i \in S : i <= j /\ \A k \in (i + 1)..j : SubSeq(pat, k, k) = "*"}

Advance(S, c, pat) ==
    {j \in 0..Len(pat) :
        \/ /\ j \in S
           /\ j < Len(pat)
           /\ SubSeq(pat, j + 1, j + 1) = "*"
           /\ c # "/"
        \/ /\ j > 0
           /\ j - 1 \in S
           /\ SubSeq(pat, j, j) # "*"
           /\ \/ SubSeq(pat, j, j) = "?" /\ c # "/"
              \/ SubSeq(pat, j, j) = c}

RECURSIVE Reach(_, _, _)
Reach(text, n, pat) ==
    IF n = 0 THEN StarClosure({0}, pat)
    ELSE StarClosure(Advance(Reach(text, n - 1, pat), SubSeq(text, n, n), pat), pat)

GlobWithinComponents(text, pat) == Len(pat) \in Reach(text, Len(text), pat)

\* the last k components of a path, joined by "/"
LastComponents(path, k) ==
    LET parts == Parts(path)
    IN Join("/", SubSeq(parts, Len(parts) - k + 1, Len(parts)))

\* a relative pattern of k components matches the last k components of the path
RightAnchored(path, pattern) ==
    LET k == Len(Parts(pattern))
    IN /\ k <= Len(Parts(path))
       /\ GlobWithinComponents(LastComponents(path, k), Join("/", Parts(pattern)))

\* the list holds relative patterns with at least one component only
RelativePatterns(patterns) ==
    \A k \in 1..Len(ListOf(patterns)) :
        ~Rooted(ListOf(patterns)[k]) /\ ~EmptyPattern(ListOf(patterns)[k])

\* C24: patterns are matched against the path as given and anchored at its
\* right end: for a non-empty list of relative patterns, a filter finds a
\* match exactly when some pattern of k components matches the last k
\* components of the path, `*` and `?` never standing for a separator.
C24_RightAnchored ==
    [][(/\ FilterCalled("should_skip_file") \/ FilterCalled("should_include_file")
        /\ ListOf(op.patterns) # <<>>
        /\ RelativePatterns(op.patterns)) =>
            result' = Returns(\E k \in 1..Len(ListOf(op.patterns)) :
                                  RightAnchored(op.path, ListOf(op.patterns)[k]))]_vars

\* `*.groovy` matched `src/Utils.groovy`
C24_Witness ==
    /\ op = [method |-> "should_skip_file", path |-> "src/Utils.groovy",
             patterns |-> Some(<<"*.groovy">>)]
    /\ result = Returns(TRUE)

\* `*.groovy` did not match `Jenkinsfile`
C24_WitnessNoSuffix ==
    /\ op = [method |-> "should_skip_file", path |-> "Jenkinsfile",
             patterns |-> Some(<<"*.groovy">>)]
    /\ result = Returns(FALSE)

\* `*/src/*.groovy` matched `lib/src/MyClass.groovy`
C24_WitnessDirectory ==
    /\ op = [method |-> "should_include_file", path |-> "lib/src/MyClass.groovy",
             patterns |-> Some(<<"*/src/*.groovy">>)]
    /\ result = Returns(TRUE)

\* `*/src/*.groovy` did not match `vars/deploy.groovy`
C24_WitnessOtherDirectory ==
    /\ op = [method |-> "should_include_file", path |-> "vars/deploy.groovy",
             patterns |-> Some(<<"*/src/*.groovy">>)]
    /\ result = Returns(FALSE)

\* `s*.groovy` did not match `src/Utils.groovy`: `*` does not cross the separator
C24_WitnessSeparator ==
    /\ op = [method |-> "should_skip_file", path |-> "src/Utils.groovy",
             patterns |-> Some(<<"s*.groovy">>)]
    /\ result = Returns(FALSE)

(***************************************************************************)
(* Properties of main, continued                                           *)
(***************************************************************************)
\* what a step appended to a stream
Appended(before, after) ==
    IF Len(after) >= Len(before) /\ SubSeq(after, 1, Len(before)) = before
    THEN SubSeq(after, Len(before) + 1, Len(after))
    ELSE <<"(stream rewritten)">>

\* the informational lines about a path
Notices(p) == {LineSkipped(p), LineNotIncluded(p)}

\* the step's call of validate failed the file
FailedTurn == result'.kind = "verdict" /\ ~result'.valid

\* C21: in every turn of the loop, skip notices, the 'Validating' line and
\* the success line are written to standard output only, and a failure
\* message to standard error only; the skip notices and the 'Validating'
\* line appear only with the verbose flag, and without it a filtered-out
\* file writes nothing to either stream.
C21_Streams ==
    [][\A p \in Paths :
          Turn(p) =>
              LET out == Appended(stdout, stdout')
                  err == Appended(stderr, stderr')
              IN  /\ \A k \in 1..Len(err) : FailedTurn /\ err[k] = LineMessage(result'.message)
                  /\ \A k \in 1..Len(out) :
                        \/ out[k] \in Notices(p) \cup {LineValidating(p), LineValid(p)}
                        \/ /\ result'.kind = "verdict"
                           /\ result'.valid
                           /\ out[k] = LineMessage(result'.message)
                  /\ \A k \in 1..Len(out) :
                        out[k] \in Notices(p) \cup {LineValidating(p)} => argv.verbose
                  /\ \A k \in 1..Len(out) : out[k] \in Notices(p) => op' = NoCall
                  /\ (op' = NoCall /\ ~argv.verbose) => out = <<>> /\ err = <<>>
                  /\ (op' = NoCall /\ argv.verbose /\ pc' = "loop") =>
                        Len(out) = 1 /\ out[1] \in Notices(p) /\ err = <<>>]_vars

\* a verbose run printed a skip notice and a 'Validating' line on standard
\* output and a failure message on standard error
C21_Witness ==
    /\ pc = "exited"
    /\ argv.verbose
    /\ \E p \in Paths : \E k \in 1..Len(stdout) : stdout[k] \in Notices(p)
    /\ \E p \in Paths : \E k \in 1..Len(stdout) : stdout[k] = LineValidating(p)
    /\ Len(stderr) = 1

\* a run without the flag filtered a file out and printed nothing
C21_WitnessQuiet ==
    /\ pc = "exited"
    /\ ~argv.verbose
    /\ Len(argv.jenkinsfile) = 2
    /\ processed = <<>>
    /\ argv.include # None
    /\ stdout = <<>>
    /\ stderr = <<>>

\* the requests a run should send: one for each supplied path that passes the
\* filters and is a readable file, in input order
RECURSIVE DueRequests(_)
DueRequests(q) ==
    IF q = <<>> THEN <<>>
    ELSE LET p == q[Len(q)]
         IN DueRequests(SubSeq(q, 1, Len(q) - 1))
               \o (IF Passes(p) /\ Readable(p) THEN <<PostRequest(fs[p].content)>> ELSE <<>>)

\* the run is over
Over == pc \in {"exited", "crashed"}

\* C22: with a service URL configured, a run of main sends exactly one request
\* for each supplied path that passes the filters and is a readable file, and
\* none for any other path, so that at its end the requests sent are those,
\* in input order.
C22_OneRequestEach ==
    (Over /\ UrlConfigured) => posted = DueRequests(argv.jenkinsfile)

\* the same for the runs that reach sys.exit
C22_WhenExited ==
    (pc = "exited" /\ UrlConfigured) => posted = DueRequests(argv.jenkinsfile)

\* no turn sends more than one request, and none after a failure
C22_AtMostOne ==
    [][\A p \in Paths : Turn(p) => Len(posted') <= Len(posted) + 1]_vars

\* the flag and the set agree, and every message of the set is the failure
\* message of a file processed so far
FlagMatchesSet(flag, printed, done) ==
    /\ flag <=> printed = {}
    /\ \A m \in printed : \E k \in 1..Len(done) : done[k].result = Verdict(FALSE, m)

\* C28: before and after every step of main the success flag is true exactly
\* when the set of printed messages is empty and every message of the set is
\* the failure message of a file already processed; the flag never returns
\* from false to true and the set never loses a message.
C28_FlagAndSet ==
    [][/\ FlagMatchesSet(all_valid, printed_messages, processed)
       /\ FlagMatchesSet(all_valid', printed_messages', processed')
       /\ all_valid' => all_valid
       /\ printed_messages \subseteq printed_messages']_vars

\* two files failed with different messages: the set holds both and the flag
\* is false
C28_Witness ==
    /\ pc = "exited"
    /\ ~all_valid
    /\ Cardinality(printed_messages) = 2
    /\ Len(stderr) = 2

\* What the first n turns of a run do apart from standard output, computed
\* from the paths, the patterns, the configuration, the files and the service
\* alone: neither the verbose flag nor standard output occurs in it.
RECURSIVE QuietRun(_)
QuietRun(n) ==
    IF n = 0
    THEN [crashed |-> FALSE, processed |-> <<>>, posted |-> <<>>, stderr |-> <<>>]
    ELSE LET before == QuietRun(n - 1)
             p == argv.jenkinsfile[n]
             skip == should_skip_file(p, argv.skip)
             include == should_include_file(p, argv.include)
             eff == validate(p)
             r == eff.result
             line == LineMessage(r.message)
         IN  IF before.crashed THEN before
             ELSE IF skip.kind = "raise" THEN [before EXCEPT !.crashed = TRUE]
             ELSE IF skip.value THEN before
             ELSE IF include.kind = "raise" THEN [before EXCEPT !.crashed = TRUE]
             ELSE IF ~include.value THEN before
             ELSE [crashed |-> r.kind # "verdict",
                   processed |-> Append(before.processed, [path |-> p, result |-> r]),
                   posted |-> before.posted \o eff.requests,
                   stderr |->
                       IF r.kind = "verdict" /\ ~r.valid
                          /\ ~\E k \in 1..Len(before.stderr) : before.stderr[k] = line
                       THEN Append(before.stderr, line)
                       ELSE before.stderr]

\* the number of turns the run has taken
TurnsTaken == IF pc = "crashed" THEN file_index ELSE file_index - 1

\* C29: the files validated and their order, the requests sent, the text on
\* the error stream, whether the run aborts and the exit code are at every
\* point those of QuietRun, which does not depend on the verbose flag; two
\* runs that differ only in that flag therefore agree on all of them, and the
\* flag changes standard output only.
C29_VerboseOnlyStdout ==
    LET quiet == QuietRun(TurnsTaken)
    IN  /\ processed = quiet.processed
        /\ posted = quiet.posted
        /\ stderr = quiet.stderr
        /\ (pc = "crashed") = quiet.crashed
        /\ pc = "exited" => exit_code = Some(IF InvalidOnes = {} THEN 0 ELSE 1)

\* a verbose run wrote to standard output, repeated a failure and exited
C29_Witness ==
    /\ pc = "exited"
    /\ argv.verbose
    /\ stdout # <<>>
    /\ InvalidOnes = {1, 2}
    /\ Len(stderr) = 1
    /\ posted # <<>>

\* the run without the flag on the same kind of input, with nothing on
\* standard output
C29_WitnessQuiet ==
    /\ pc = "exited"
    /\ ~argv.verbose
    /\ stdout = <<>>
    /\ InvalidOnes = {1, 2}
    /\ Len(stderr) = 1
    /\ posted # <<>>

(***************************************************************************)
(* Properties of the linter, continued                                     *)
(***************************************************************************)
FixedPath == "/pipeline-model-converter/validate"

\* the text ends with the suffix
EndsWith(t, suffix) ==
    Len(t) >= Len(suffix) /\ SubSeq(t, Len(t) - Len(suffix) + 1, Len(t)) = suffix

\* the text consists of "/" characters only
OnlySlashes(t) == \A i \in 1..Len(t) : SubSeq(t, i, i) = "/"

\* C25: the target of every request is the configured URL without its
\* trailing "/" characters, followed by the fixed path: the part before the
\* fixed path does not end with "/" (so there is no "//" before
\* pipeline-model-converter) and the URL is that part followed by slashes
\* only, which makes the target the same for URLs that differ in trailing
\* slashes only.
C25_Target ==
    [][requests' # <<>> =>
          LET target == requests'[1].url
              base == SubSeq(target, 1, Len(target) - Len(FixedPath))
              url == jenkins_url[1]
          IN  /\ EndsWith(target, FixedPath)
              /\ ~EndsWith(base, "/")
              /\ ~Contains(target, "//pipeline-model-converter")
              /\ Len(url) >= Len(base)
              /\ SubSeq(url, 1, Len(base)) = base
              /\ OnlySlashes(SubSeq(url, Len(base) + 1, Len(url)))]_vars

\* a URL with two trailing slashes gave the target of the URL without them
C25_Witness ==
    /\ jenkins_url = Some("https://ci.example.com//")
    /\ requests # <<>>
    /\ requests[1].url = "https://ci.example.com/pipeline-model-converter/validate"

\* C26: _validate_with_jenkins without a service URL (None or empty) returns
\* (False, 'URL not provided') at once: no file is opened, whatever is at the
\* path, and no request is sent.
C26_UrlFirst ==
    [][\A p \in Paths :
          (Called("_validate_with_jenkins", p) /\ ~UrlConfigured) =>
              /\ result' = Verdict(FALSE, MsgUrlNotProvided)
              /\ reads' = <<>>
              /\ requests' = <<>>
              /\ calls' = <<"_validate_with_jenkins">>]_vars

\* the call was made on a path that is not a readable file
C26_Witness ==
    /\ LastOp.method = "_validate_with_jenkins"
    /\ ~UrlConfigured
    /\ ~Readable(LastOp.path)
    /\ result = Verdict(FALSE, MsgUrlNotProvided)
    /\ reads = <<>>

\* C27: validate returns a verdict, a pair of a truth value and a text, for
\* every path and every response that is received without an HTTP error,
\* whatever the shape of its JSON body; it neither returns None nor raises.
C27_Total ==
    [][\A p \in Paths :
          (Called("validate", p) /\ RemoteAnswered(p)) =>
              /\ result'.kind = "verdict"
              /\ result'.valid \in BOOLEAN]_vars

====
